---- MODULE Spec2Model ----
(***************************************************************************)
(* State-machine model of the real-estate scraping scripts:                *)
(*   - project_I/script_principal.py and the scripts it launches           *)
(*     (import_request.py, eliminar_duplicatas.py, inserir_dados_mysql.py) *)
(*   - simple_scraper/csv_15.py (JinaAIRealEstateScraper)                  *)
(* Strings that the code takes apart (addresses) are sequences of          *)
(* one-character strings; every other string is an atomic value.           *)
(***************************************************************************)
EXTENDS Integers, Sequences, FiniteSets, TLC

VARIABLES
    \* ---- project_I: orchestrator and the tables the scripts work on
    pc,          \* position of script_principal.py
    running,     \* script of the child process being waited for, or None
    started,     \* scripts launched by the orchestrator, in launch order
    finished,    \* [script, status] of the children that exited, in exit order
    out,         \* messages printed by the orchestrator
    sqlite,      \* table 'apartamentos' of ./apartamentos.db (NoTable: absent)
    mysql,       \* table 'apartamentos' of the MySQL database
    dedupIn,     \* the table eliminar_duplicatas.py read (NoTable: it has not run)
    \* ---- csv_15.py: one call of clean_address_fields
    addrIn,      \* the property dict passed to the call
    addrOut,     \* the dict after the call
    addrPc,      \* "off", "call" (before the call) or "done"
    \* ---- csv_15.py: one call of extract_properties_simple
    simpleIn,    \* clean_content: the sections between blank lines
    simpleOut,   \* the list returned
    simplePc,    \* "off", "call" (before the call) or "done"
    \* ---- csv_15.py: one call of process_url
    urlArgs,     \* [url, use_llm]: the arguments of the call
    urlEnv,      \* [reader, llm, stamp]: what the servers and the clock answer
    urlRet,      \* what the call did and returned
    urlPc,       \* "off", "call" (before the call) or "done"
    \* ---- csv_15.py: one call of save_to_csv
    csvIn,       \* properties: the list passed to the call
    csvOut,      \* [ret, written, rows]: the value returned and the file written
    csvPc,       \* "off", "call" (before the call) or "done"
    \* ---- csv_15.py: a JinaAIRealEstateScraper instance and the clock
    api_key,             \* self.api_key
    requests_per_minute, \* self.requests_per_minute
    min_delay,           \* self.min_delay, in milliseconds
    last_request_time,   \* self.last_request_time, in milliseconds
    now,                 \* time.time(), in milliseconds
    ratePc,              \* position in extract_clean_content ("off": no instance)
    wakeAt,              \* when the pending time.sleep returns
    requests,            \* number of requests sent to the reader so far
    lastSent,            \* when the last request was sent (-1: none yet)
    gapsOk,              \* every request was sent at least min_delay after the one before
    winStart,            \* when the first request was sent (-1: none yet)
    winCount,            \* requests sent in the 60 s that start at winStart
    \* ---- csv_15.py: one call of process_multiple_urls
    multiArgs,       \* [urls, use_llm]: the arguments of the call
    multiI,          \* number of URLs the loop has taken so far
    all_properties,  \* all_properties
    multiLog,        \* [url, ret]: the process_url calls made, in order
    multiPc,         \* "off", "loop", "sleep", "done" or "raised"
    \* ---- csv_15.py: one call of extract_address_from_section
    sectIn,          \* matches: what re.findall(address_pattern, section) returned
    sectOut,         \* the value extract_address_from_section returned
    sectPc,          \* "off", "call" (before the call) or "done"
    \* ---- test_scraper.py: one call of run_scraper
    runArgs,         \* url: the argument of run_scraper
    runEnv,          \* [browser, graph, disk, stamp]: what the browser, the scraping graph and the disk do
    runRet,          \* what the call did and returned
    runPc,           \* "off", "call" (before the call) or "done"
    \* ---- capturar_xhr.py: one call of capturar_xhr
    xhrPc,           \* position in capturar_xhr ("off": not called)
    arrived,         \* the responses the page received, in order
    queued,          \* numbers of the responses whose 'response' event is not dispatched yet
    fired,           \* numbers of the responses intercept_response was called for, in order
    pending,         \* numbers of the responses whose callback waits in response.json()
    xhrs             \* xhrs

orchVars == <<pc, running, started, finished, out, sqlite, mysql, dedupIn>>
addrVars == <<addrIn, addrOut, addrPc>>
simpleVars == <<simpleIn, simpleOut, simplePc>>
urlVars == <<urlArgs, urlEnv, urlRet, urlPc>>
csvVars == <<csvIn, csvOut, csvPc>>
rateVars == <<api_key, requests_per_minute, min_delay, last_request_time, now, ratePc,
              wakeAt, requests, lastSent, gapsOk, winStart, winCount>>
multiVars == <<multiArgs, multiI, all_properties, multiLog, multiPc>>
sectVars == <<sectIn, sectOut, sectPc>>
runVars == <<runArgs, runEnv, runRet, runPc>>
xhrVars == <<xhrPc, arrived, queued, fired, pending, xhrs>>

vars == <<orchVars, addrVars, simpleVars, urlVars, csvVars, rateVars,
         multiVars,
         sectVars,
         runVars,
         xhrVars>>

\* What each specification leaves alone.
nonOrchVars == <<addrVars, simpleVars, urlVars, csvVars, rateVars,
                  multiVars,
                  sectVars,
                  runVars,
                  xhrVars>>
nonAddrVars == <<orchVars, simpleVars, urlVars, csvVars, rateVars,
                  multiVars,
                  sectVars,
                  runVars,
                  xhrVars>>
nonSimpleVars == <<orchVars, addrVars, urlVars, csvVars, rateVars,
                  multiVars,
                  sectVars,
                  runVars,
                  xhrVars>>
nonUrlVars == <<orchVars, addrVars, simpleVars, csvVars, rateVars,
                  multiVars,
                  sectVars,
                  runVars,
                  xhrVars>>
nonCsvVars == <<orchVars, addrVars, simpleVars, urlVars, rateVars,
                  multiVars,
                  sectVars,
                  runVars,
                  xhrVars>>
nonRateVars == <<orchVars, addrVars, simpleVars, urlVars, csvVars,
                  multiVars,
                  sectVars,
                  runVars,
                  xhrVars>>
nonMultiVars == <<orchVars, addrVars, simpleVars, urlVars, csvVars, rateVars,
                  sectVars,
                  runVars,
                  xhrVars>>
nonSectVars == <<orchVars, addrVars, simpleVars, urlVars, csvVars, rateVars, multiVars,
                  runVars,
                  xhrVars>>
nonRunVars == <<orchVars, addrVars, simpleVars, urlVars, csvVars, rateVars, multiVars, sectVars,
                  xhrVars>>
nonXhrVars == <<orchVars, addrVars, simpleVars, urlVars, csvVars, rateVars, multiVars, sectVars, runVars>>

None == "None"
NoTable == "NoTable"

Range(s) == {s[i] : i \in 1..Len(s)}

Min(S) == CHOOSE x \in S : \A y \in S : x <= y

\* All sequences over S of length at most n.
BoundedSeq(S, n) == UNION {[1..k -> S] : k \in 0..n}

(***************************************************************************)
(* project_I: the 'apartamentos' table                                     *)
(***************************************************************************)

\* Largest number of listing cards a scraped page holds.
MaxRows == 3

\* The six columns import_request.py writes.
Row(a, p, q, b, v, e) ==
    [Area |-> a, Preco |-> p, Quartos |-> q, Banheiros |-> b, Vagas |-> v, Endereco |-> e]

\* Listing cards a page may show: one card and three others that each differ
\* from it in exactly one column.
Cards ==
    { Row("80 m2", "R$ 500.000", "2", "1", "1", "Rua 1"),
      Row("95 m2", "R$ 500.000", "2", "1", "1", "Rua 1"),
      Row("80 m2", "R$ 650.000", "2", "1", "1", "Rua 1"),
      Row("80 m2", "R$ 500.000", "2", "1", "1", "Rua 9") }

\* subset=[...] of the drop_duplicates call, with one column forgotten.
SubsetKeyNoEndereco(row) ==
    <<row.Area, row.Preco, row.Quartos, row.Banheiros, row.Vagas>>

\* subset=['Área', 'Preço', 'Quartos', 'Banheiros', 'Vagas de Garagem', 'Endereço']
SubsetKey(row) ==
    <<row.Area, row.Preco, row.Quartos, row.Banheiros, row.Vagas, row.Endereco>>

\* DataFrame.duplicated(keep='first') over a column of keys: one pass that marks
\* a position when its key was seen at an earlier position.
RECURSIVE DuplicatedFrom(_, _, _)
DuplicatedFrom(keys, i, seen) ==
    IF i > Len(keys) THEN << >>
    ELSE <<keys[i] \in seen>> \o DuplicatedFrom(keys, i + 1, seen \cup {keys[i]})

Duplicated(keys) == DuplicatedFrom(keys, 1, {})

\* df[~mask]: the rows whose mask entry is False, in their order.
RECURSIVE DropMasked(_, _, _)
DropMasked(df, mask, i) ==
    IF i > Len(df) THEN << >>
    ELSE (IF mask[i] THEN << >> ELSE <<df[i]>>) \o DropMasked(df, mask, i + 1)

\* df.drop_duplicates(subset=..., keep='first') of eliminar_duplicatas.py
DropDuplicates(df) ==
    DropMasked(df, Duplicated([i \in 1..Len(df) |-> SubsetKey(df[i])]), 1)

(***************************************************************************)
(* project_I: what one run of each script does to the tables.              *)
(* A run is [status, sqlite, mysql]: the exit status and the tables after. *)
(***************************************************************************)

ImportRequestScript == "import_request.py"
EliminarScript == "eliminar_duplicatas.py"
InserirScript == "inserir_dados_mysql.py"

\* import_request.py: the six column lists are cut to the shortest one and
\* written over the table. `cards` are the cards of the page and `shortest` the
\* length of the shortest column list.
ImportRequestRun(cards, shortest, tS, tM) ==
    [status |-> 0,
     sqlite |-> SubSeq(cards, 1, Min({Len(cards), shortest})),
     mysql |-> tM]

\* eliminar_duplicatas.py: read_sql raises when the table is absent; otherwise
\* the table is replaced by its deduplicated copy.
EliminarDuplicatasRun(tS, tM) ==
    IF tS = NoTable
    THEN [status |-> 1, sqlite |-> tS, mysql |-> tM]
    ELSE [status |-> 0, sqlite |-> DropDuplicates(tS), mysql |-> tM]

\* inserir_dados_mysql.py: read_sql raises when the SQLite table is absent,
\* to_sql raises when the MySQL server cannot be reached; otherwise the MySQL
\* table is replaced by a copy of the SQLite table.
InserirDadosMysqlRun(serverUp, tS, tM) ==
    IF tS = NoTable \/ ~serverUp
    THEN [status |-> 1, sqlite |-> tS, mysql |-> tM]
    ELSE [status |-> 0, sqlite |-> tS, mysql |-> tS]

(***************************************************************************)
(* project_I: script_principal.py                                          *)
(***************************************************************************)

MsgStep1 == "Executando o script 1: Coletar dados..."
MsgStep2 == "Executando o script 2: Eliminar duplicatas..."
MsgStep3 == "Executando o script 3: Enviar para MySQL..."
MsgSuccess == "Todos os scripts executados com sucesso!"
MsgErro == "Erro ao executar o script"

NumSteps == 3

\* The message printed before step k and the script its subprocess.run names.
StepMsg(k) == IF k = 1 THEN MsgStep1 ELSE IF k = 2 THEN MsgStep2 ELSE MsgStep3

StepScript(k) ==
    IF k = 1 THEN InserirScript ELSE IF k = 2 THEN EliminarScript ELSE InserirScript

\* subprocess.run without check=True never raises on the exit status.
RaisesUnchecked(status) == FALSE

\* subprocess.run(..., check=True) raises CalledProcessError on a non-zero status.
RaisesCalledProcessError(status) == status # 0

OrchInit ==
    /\ pc = "start"
    /\ running = None
    /\ started = << >>
    /\ finished = << >>
    /\ out = << >>
    /\ sqlite = NoTable
    /\ mysql = NoTable
    /\ dedupIn = NoTable

\* import_request.py run by hand before the orchestrator is started.
ImportRequest ==
    /\ pc = "start"
    /\ \E cards \in BoundedSeq(Cards, MaxRows), shortest \in 0..MaxRows :
          LET r == ImportRequestRun(cards, shortest, sqlite, mysql) IN
          /\ sqlite' = r.sqlite
          /\ mysql' = r.mysql
    /\ UNCHANGED <<pc, running, started, finished, out, dedupIn>>
    /\ UNCHANGED nonOrchVars

\* print(...) and the launch of step k's child by subprocess.run.
Launch(k) ==
    /\ pc = (IF k = 1 THEN "start" ELSE "step")
    /\ running = None
    /\ Len(finished) = k - 1
    /\ out' = Append(out, StepMsg(k))
    /\ running' = StepScript(k)
    /\ started' = Append(started, StepScript(k))
    /\ pc' = "wait"
    /\ UNCHANGED <<finished, sqlite, mysql, dedupIn>>
    /\ UNCHANGED nonOrchVars

\* The interpreter cannot be started: subprocess.run raises an OSError, which
\* the except clause does not name, so the orchestrator ends with a traceback.
LaunchFails(k) ==
    /\ pc = (IF k = 1 THEN "start" ELSE "step")
    /\ running = None
    /\ Len(finished) = k - 1
    /\ out' = Append(out, StepMsg(k))
    /\ pc' = "crashed"
    /\ UNCHANGED <<running, started, finished, sqlite, mysql, dedupIn>>
    /\ UNCHANGED nonOrchVars

\* The run of the child being waited for. `killed`: the child dies before it
\* touched a table (status non-zero).
ChildRun(script, serverUp, killed, tS, tM) ==
    IF killed THEN [status |-> 1, sqlite |-> tS, mysql |-> tM]
    ELSE IF script = EliminarScript THEN EliminarDuplicatasRun(tS, tM)
    ELSE InserirDadosMysqlRun(serverUp, tS, tM)

\* The child exits and subprocess.run returns or raises; the orchestrator goes
\* on to the next print, to the success message, or to the except clause.
ChildExit ==
    /\ pc = "wait"
    /\ \E serverUp \in BOOLEAN, killed \in BOOLEAN :
          LET r == ChildRun(running, serverUp, killed, sqlite, mysql)
              k == Len(started)
          IN
          /\ sqlite' = r.sqlite
          /\ mysql' = r.mysql
          /\ dedupIn' = IF running = EliminarScript /\ ~killed /\ sqlite # NoTable
                        THEN sqlite ELSE dedupIn
          /\ finished' = Append(finished, [script |-> running, status |-> r.status])
          /\ IF RaisesCalledProcessError(r.status)
             THEN /\ out' = Append(out, MsgErro)
                  /\ pc' = "done"
             ELSE IF k = NumSteps
             THEN /\ out' = Append(out, MsgSuccess)
                  /\ pc' = "done"
             ELSE /\ out' = out
                  /\ pc' = "step"
    /\ running' = None
    /\ UNCHANGED started
    /\ UNCHANGED nonOrchVars

OrchNext ==
    \/ ImportRequest
    \/ \E k \in 1..NumSteps : Launch(k)
    \/ \E k \in 1..NumSteps : LaunchFails(k)
    \/ ChildExit

\* The orchestrator not started (the other specifications).
OrchOff ==
    /\ pc = "off"
    /\ running = None
    /\ started = << >>
    /\ finished = << >>
    /\ out = << >>
    /\ sqlite = NoTable
    /\ mysql = NoTable
    /\ dedupIn = NoTable

(***************************************************************************)
(* Claims about project_I                                                  *)
(***************************************************************************)

IsPrefix(s, t) == Len(s) <= Len(t) /\ SubSeq(t, 1, Len(s)) = s

\* The order of steps the orchestrator announces: collect, deduplicate, send.
AnnouncedOrder == <<ImportRequestScript, EliminarScript, InserirScript>>

\* C1: the orchestrator launches the collection script, then the
\* duplicate-elimination script, then the MySQL script, in this order, and a
\* step is launched only when every earlier step has exited.
C1_StepsInAnnouncedOrder ==
    /\ IsPrefix(started, AnnouncedOrder)
    /\ Len(started) = Len(finished) + (IF running = None THEN 0 ELSE 1)

\* C2: once a step exited with a non-zero status it is the last step that was
\* started, nothing is running, the success message is not printed, the
\* orchestrator ended normally with the error message as its last output; and
\* the success message is printed only after three steps exited with status 0.
C2_StopsAtFirstFailure ==
    /\ \A i \in 1..Len(finished) :
          finished[i].status # 0 =>
             /\ i = Len(finished)
             /\ Len(started) = i
             /\ running = None
             /\ MsgSuccess \notin Range(out)
             /\ pc = "done"
             /\ out[Len(out)] = MsgErro
    /\ MsgSuccess \in Range(out) =>
          /\ Len(finished) = NumSteps
          /\ \A i \in 1..Len(finished) : finished[i].status = 0

\* Witness of C2: the second step failed after the first one succeeded.
C2_Witness ==
    /\ Len(finished) = 2
    /\ finished[1].status = 0
    /\ finished[2].status # 0
    /\ pc = "done"

\* Two rows agree on all six columns.
AgreeOnSix(r1, r2) ==
    /\ r1.Area = r2.Area
    /\ r1.Preco = r2.Preco
    /\ r1.Quartos = r2.Quartos
    /\ r1.Banheiros = r2.Banheiros
    /\ r1.Vagas = r2.Vagas
    /\ r1.Endereco = r2.Endereco

\* Position of the first row of table t that agrees with row r.
FirstAgreeing(t, r) == Min({i \in 1..Len(t) : AgreeOnSix(t[i], r)})

\* C9: after eliminar_duplicatas.py ran, no two rows of the table agree on all
\* six columns, every combination of the six values of the table it read is
\* left exactly once, every row left is a row of the table it read, and the
\* rows left are in the order of their first occurrences in that table.
C9_EliminarDuplicatas ==
    dedupIn # NoTable =>
       /\ \A i, j \in 1..Len(sqlite) : i # j => ~AgreeOnSix(sqlite[i], sqlite[j])
       /\ \A i \in 1..Len(dedupIn) :
             Cardinality({j \in 1..Len(sqlite) : AgreeOnSix(sqlite[j], dedupIn[i])}) = 1
       /\ \A j \in 1..Len(sqlite) :
             \E i \in 1..Len(dedupIn) : AgreeOnSix(dedupIn[i], sqlite[j])
       /\ \A j, k \in 1..Len(sqlite) :
             j < k => FirstAgreeing(dedupIn, sqlite[j]) < FirstAgreeing(dedupIn, sqlite[k])

\* Witness of C9: the script read a table with a repeated row between two
\* different rows and left fewer rows.
C9_Witness ==
    /\ dedupIn # NoTable
    /\ Len(dedupIn) = 3
    /\ Len(sqlite) = 2
    /\ AgreeOnSix(dedupIn[1], dedupIn[3])

(***************************************************************************)
(* csv_15.py: strings as sequences of characters                           *)
(***************************************************************************)

\* None in a field whose other values are character sequences.
NoneStr == <<"None">>

\* `not v` for such a field: None and the empty string are false.
Falsy(v) == v = NoneStr \/ v = << >>

\* ch in s
HasChar(s, ch) == \E i \in 1..Len(s) : s[i] = ch

\* s.split(ch): the pieces between the occurrences of ch (one more than there
\* are occurrences, empty pieces included).
RECURSIVE SplitFrom(_, _, _, _)
SplitFrom(s, ch, i, cur) ==
    IF i > Len(s) THEN <<cur>>
    ELSE IF s[i] = ch THEN <<cur>> \o SplitFrom(s, ch, i + 1, << >>)
    ELSE SplitFrom(s, ch, i + 1, Append(cur, s[i]))

Split(s, ch) == SplitFrom(s, ch, 1, << >>)

\* s.strip(): leading and trailing blanks removed.
RECURSIVE LStrip(_)
LStrip(s) == IF s # << >> /\ s[1] = " " THEN LStrip(Tail(s)) ELSE s

RECURSIVE RStrip(_)
RStrip(s) ==
    IF s # << >> /\ s[Len(s)] = " " THEN RStrip(SubSeq(s, 1, Len(s) - 1)) ELSE s

Strip(s) == RStrip(LStrip(s))

\* [p.strip() for p in s.split(ch)]
StrippedParts(s, ch) == LET parts == Split(s, ch) IN [i \in 1..Len(parts) |-> Strip(parts[i])]

\* ch.join(parts)
RECURSIVE Join(_, _)
Join(parts, ch) ==
    IF parts = << >> THEN << >>
    ELSE IF Len(parts) = 1 THEN parts[1]
    ELSE parts[1] \o <<ch>> \o Join(Tail(parts), ch)

\* parts[:-1]
ButLast(parts) == SubSeq(parts, 1, Len(parts) - 1)

\* d.get(k): None when the key is absent.
Get(d, k) == IF k \in DOMAIN d THEN d[k] ELSE NoneStr

\* d[k] = v
Put(d, k, v) == [x \in DOMAIN d \cup {k} |-> IF x = k THEN v ELSE d[x]]

(***************************************************************************)
(* csv_15.py: clean_address_fields                                         *)
(***************************************************************************)

\* First block: 'bairro' is empty and the address has a comma.
CleanBairro(d, address) ==
    IF Falsy(Get(d, "bairro")) /\ HasChar(address, ",")
    THEN LET parts == StrippedParts(address, ",") IN
         IF Len(parts) > 1
         THEN Put(Put(d, "bairro", parts[Len(parts)]), "endereco", Join(ButLast(parts), ","))
         ELSE d
    ELSE d

\* Second block: 'cidade' is empty and the address (as it was on entry) has a
\* hyphen.
CleanCidade(d, address) ==
    IF Falsy(Get(d, "cidade")) /\ HasChar(address, "-")
    THEN LET parts == StrippedParts(address, "-") IN
         IF Len(parts) > 1
         THEN Put(Put(d, "cidade", parts[Len(parts)]), "endereco", Join(ButLast(parts), "-"))
         ELSE d
    ELSE d

\* clean_address_fields(property_data): the dict after the call.
clean_address_fields(d) ==
    IF "endereco" \in DOMAIN d /\ ~Falsy(d.endereco)
    THEN CleanCidade(CleanBairro(d, d.endereco), d.endereco)
    ELSE d

\* Longest address drawn character by character.
MaxAddrLen == 4

AddrAlphabet == {"a", "b", " ", ",", "-"}

\* Streets, neighbourhoods and cities: no comma, no hyphen, no blank at an end.
Streets == {<<"R", "u", "a", " ", "X">>, <<"A", "v", " ", "Y">>}
Neighbourhoods == {<<"C", "e", "n", "t", "r", "o">>, <<"B", "e", "l", "a">>}
Cities == {<<"S", "P">>, <<"R", "i", "o">>}

\* '<street>, <neighbourhood> - <city>'
AddressOf(street, neighbourhood, city) ==
    street \o <<",", " ">> \o neighbourhood \o <<" ", "-", " ">> \o city

\* Addresses a property dict may hold on entry.
AddrInputs ==
    BoundedSeq(AddrAlphabet, MaxAddrLen)
    \cup {NoneStr}
    \cup {AddressOf(s, n, c) : s \in Streets, n \in Neighbourhoods, c \in Cities}
    \cup {s \o <<",", " ">> \o n : s \in Streets, n \in Neighbourhoods}
    \cup {s \o <<" ", "-", " ">> \o c : s \in Streets, c \in Cities}

FieldInputs == {NoneStr, << >>, <<"V">>}

AddrOff ==
    /\ addrPc = "off"
    /\ addrIn = << >>
    /\ addrOut = << >>

AddrInit ==
    /\ addrPc = "call"
    /\ addrIn \in [endereco : AddrInputs, bairro : FieldInputs, cidade : FieldInputs]
    /\ addrOut = addrIn

\* One call of clean_address_fields on the dict.
Call_clean_address_fields ==
    /\ addrPc = "call"
    /\ addrOut' = clean_address_fields(addrIn)
    /\ addrPc' = "done"
    /\ UNCHANGED addrIn
    /\ UNCHANGED nonAddrVars

AddrNext == Call_clean_address_fields

(***************************************************************************)
(* Claims about clean_address_fields                                       *)
(***************************************************************************)

\* sub occurs in s
Contains(s, sub) == \E i \in 0..(Len(s) - Len(sub)) : SubSeq(s, i + 1, i + Len(sub)) = sub

\* C10: after clean_address_fields on a dict with empty 'bairro' and 'cidade'
\* and an address '<street>, <neighbourhood> - <city>', 'bairro' is the
\* neighbourhood, 'cidade' is the city and 'endereco' contains neither.
C10_AddressSeparated ==
    \A s \in Streets, n \in Neighbourhoods, c \in Cities :
       (/\ addrPc = "done"
        /\ addrIn.endereco = AddressOf(s, n, c)
        /\ Falsy(addrIn.bairro)
        /\ Falsy(addrIn.cidade))
       => /\ addrOut.bairro = n
          /\ addrOut.cidade = c
          /\ ~Contains(addrOut.endereco, n)
          /\ ~Contains(addrOut.endereco, c)


(***************************************************************************)
(* csv_15.py: page text.  A text is the sequence of its sections (the      *)
(* pieces re.split(r'\n\s*\n') yields); a section is its lines together    *)
(* with what each re.findall of extract_properties_simple finds in it.     *)
(***************************************************************************)

\* None in a field whose other values are atomic strings is None ("None");
\* None in a numeric field:
NoneNum == -1

\* A line: its text, its length after strip(), and whether its lower-cased
\* text holds one of 'apartamento', 'casa', 'imóvel', 'venda', 'aluguel'.
Line(text, len, keyword) == [text |-> text, len |-> len, keyword |-> keyword]

\* A section: lines, and the matches of price_pattern, address_pattern,
\* room_pattern, bath_pattern (captured digits as numbers) and area_pattern
\* (captured <<integer part, separator, fraction digits>>).
Section(lines, prices, addresses, rooms, baths, areas) ==
    [lines |-> lines, prices |-> prices, addresses |-> addresses,
     rooms |-> rooms, baths |-> baths, areas |-> areas]

RECURSIVE SumLens(_)
SumLens(lines) == IF lines = << >> THEN 0 ELSE lines[1].len + SumLens(Tail(lines))

\* len(section): the lines and the newlines between them.
SectionLen(sec) == SumLens(sec.lines) + (Len(sec.lines) - 1)

RECURSIVE SumSectionLens(_)
SumSectionLens(text) ==
    IF text = << >> THEN 0 ELSE SectionLen(text[1]) + SumSectionLens(Tail(text))

\* len(clean_content): the sections and one blank line between two of them.
TextLen(text) ==
    IF text = << >> THEN 0 ELSE SumSectionLens(text) + 2 * (Len(text) - 1)

\* A listing with every field: 94 characters.
SecApto ==
    Section(<<Line("Apartamento Centro 3 quartos", 28, TRUE),
              Line("R$ 850.000 2 banheiros 85,5 m2 cond R$ 900", 42, FALSE),
              Line("Rua X, Centro - SP", 18, FALSE)>>,
            <<"R$ 850.000", "R$ 900">>,
            << <<"R", "u", "a", " ", "X", ",", " ", "C", "e", "n", "t", "r", "o", " ", "-", " ", "S", "P">> >>,
            <<3>>, <<2>>, << <<85, ",", 5>> >>)

\* A listing whose only line is too long for a title and has no keyword.
SecLong ==
    Section(<<Line("Oportunidade ... R$ 1.200.000 ... 120.0 m2 ... Av Y", 120, FALSE)>>,
            <<"R$ 1.200.000">>,
            << <<"A", "v", " ", "Y">> >>,
            << >>, << >>, << <<120, ".", 0>> >>)

\* A price in a section of 49 characters, and in one of 50.
Sec49 ==
    Section(<<Line("abc", 3, FALSE), Line("R$ 300.000 ...", 45, FALSE)>>,
            <<"R$ 300.000">>, << >>, << >>, << >>, << >>)

Sec50 ==
    Section(<<Line("abcd", 4, FALSE), Line("R$ 300.000 ...", 45, FALSE)>>,
            <<"R$ 300.000">>, << >>, << >>, << >>, << >>)

\* A long section without a price.
SecNoPrice ==
    Section(<<Line("Casa para alugar, 2 quartos, consulte valores", 45, TRUE),
              Line("Fale com o corretor", 19, FALSE)>>,
            << >>, << >>, <<2>>, << >>, << >>)

SectionPool == {SecApto, SecLong, Sec49, Sec50, SecNoPrice}

(***************************************************************************)
(* csv_15.py: extract_title_from_section, extract_address_from_section,    *)
(* extract_properties_simple                                               *)
(***************************************************************************)

TitleMinLen == 10
TitleMaxLen == 100
FallbackMinLen == 5
TitleCut == 80

\* A title: the line it is taken from and how many of its characters.
Title(text, len) == [text |-> text, len |-> len]

TitleNotFound == Title("Título não identificado", 23)

\* First loop: the first line longer than 10 and shorter than 100 characters
\* that holds a keyword.
RECURSIVE KeywordLine(_, _)
KeywordLine(lines, i) ==
    IF i > Len(lines) THEN 0
    ELSE IF lines[i].len > TitleMinLen /\ lines[i].len < TitleMaxLen /\ lines[i].keyword
    THEN i
    ELSE KeywordLine(lines, i + 1)

\* Second loop: the first line longer than 5 characters.
RECURSIVE FallbackLine(_, _)
FallbackLine(lines, i) ==
    IF i > Len(lines) THEN 0
    ELSE IF lines[i].len > FallbackMinLen THEN i
    ELSE FallbackLine(lines, i + 1)

extract_title_from_section(sec) ==
    LET k == KeywordLine(sec.lines, 1)
        f == FallbackLine(sec.lines, 1)
    IN IF k # 0 THEN Title(sec.lines[k].text, sec.lines[k].len)
       ELSE IF f # 0 THEN Title(sec.lines[f].text, Min({sec.lines[f].len, TitleCut}))
       ELSE TitleNotFound

\* The result of extract_address_from_section; found = FALSE stands for None.
AddressInfo(found, endereco, bairro, cidade) ==
    [found |-> found, endereco |-> endereco, bairro |-> bairro, cidade |-> cidade]

\* extract_address_from_section, from the matches of address_pattern on.
extract_address_from_section(matches) ==
    IF matches = << >> THEN AddressInfo(FALSE, NoneStr, NoneStr, NoneStr)
    ELSE LET full_address == Strip(matches[1])
             parts == StrippedParts(full_address, ",")
             last == parts[Len(parts)]
             city_parts == Split(last, "-")
         IN IF Len(parts) > 1
            THEN IF HasChar(last, "-") /\ Len(city_parts) > 1
                 THEN AddressInfo(TRUE, Join(ButLast(parts), ","),
                                  Strip(city_parts[1]), Strip(city_parts[Len(city_parts)]))
                 ELSE AddressInfo(TRUE, Join(ButLast(parts), ","), last, NoneStr)
            ELSE AddressInfo(TRUE, full_address, NoneStr, NoneStr)

\* float(areas[0].replace(',', '.')): <<integer part, fraction digits>>
AreaValue(capture) == <<capture[1], capture[3]>>

NoArea == <<NoneNum, NoneNum>>

\* The dict built for one section (lines 273-309).
PropertyOf(sec, url) ==
    LET address_info == extract_address_from_section(sec.addresses) IN
    [titulo |-> extract_title_from_section(sec),
     preco |-> sec.prices[1],
     endereco |-> IF address_info.found THEN address_info.endereco ELSE NoneStr,
     bairro |-> IF address_info.found THEN address_info.bairro ELSE NoneStr,
     cidade |-> IF address_info.found THEN address_info.cidade ELSE NoneStr,
     area_m2 |-> IF sec.areas # << >> THEN AreaValue(sec.areas[1]) ELSE NoArea,
     quartos |-> IF sec.rooms # << >> THEN sec.rooms[1] ELSE NoneNum,
     banheiros |-> IF sec.baths # << >> THEN sec.baths[1] ELSE NoneNum,
     vagas |-> NoneNum,
     tipo |-> None,
     condominio |-> None,
     caracteristicas |-> << >>,
     link |-> url]

\* Sections shorter than this are skipped.
MinSectionLen == 50

\* The number of properties at which the loop stops.
PropertyLimit == 20

\* The limit test with > for >=.
ReachedLimitOffByOne(n) == n > PropertyLimit

\* if len(properties) >= 20: break
ReachedLimit(n) == n >= PropertyLimit

\* The loop over the sections, from section i on with `properties` collected.
RECURSIVE SimpleLoop(_, _, _, _)
SimpleLoop(sections, url, i, properties) ==
    IF i > Len(sections) THEN properties
    ELSE IF SectionLen(sections[i]) < MinSectionLen THEN SimpleLoop(sections, url, i + 1, properties)
    ELSE IF sections[i].prices = << >> THEN SimpleLoop(sections, url, i + 1, properties)
    ELSE LET appended == Append(properties, PropertyOf(sections[i], url)) IN
         IF ReachedLimit(Len(appended)) THEN appended
         ELSE SimpleLoop(sections, url, i + 1, appended)

extract_properties_simple(clean_content, url) == SimpleLoop(clean_content, url, 1, << >>)

\* Largest number of sections of a text given to extract_properties_simple.
MaxSections == 22

\* Longest pattern of sections a text repeats.
MaxPattern == 2

\* The text of n sections that repeats the pattern.
Repeated(pattern, n) == [i \in 1..n |-> pattern[((i - 1) % Len(pattern)) + 1]]

SimpleTexts ==
    {Repeated(pattern, n) :
        pattern \in BoundedSeq(SectionPool, MaxPattern) \ {<< >>}, n \in 0..MaxSections}

UrlA == "https://a.example/venda"
UrlB == "https://b.example/venda"
Urls == {UrlA, UrlB}

SimpleOff ==
    /\ simplePc = "off"
    /\ simpleIn = << >>
    /\ simpleOut = << >>

SimpleInit ==
    /\ simplePc = "call"
    /\ simpleIn \in SimpleTexts
    /\ simpleOut = << >>

\* One call of extract_properties_simple.
Call_extract_properties_simple ==
    /\ simplePc = "call"
    /\ \E url \in Urls : simpleOut' = extract_properties_simple(simpleIn, url)
    /\ simplePc' = "done"
    /\ UNCHANGED simpleIn
    /\ UNCHANGED nonSimpleVars

SimpleNext == Call_extract_properties_simple

(***************************************************************************)
(* Claims about extract_properties_simple                                  *)
(***************************************************************************)

\* Number of sections of a text that are at least 50 characters long and hold
\* a price.
PricedSections(text) ==
    Cardinality({i \in 1..Len(text) : SectionLen(text[i]) >= 50 /\ text[i].prices # << >>})

\* C7: extract_properties_simple returns at most 20 records, whatever the
\* number of sections with a price.
C7_AtMostTwenty == simplePc = "done" => Len(simpleOut) <= 20

\* Witness of C7: a text with more than 20 sections that hold a price, for
\* which 20 records were returned.
C7_Witness ==
    /\ simplePc = "done"
    /\ PricedSections(simpleIn) > 20
    /\ Len(simpleOut) = 20


(***************************************************************************)
(* csv_15.py: extract_clean_content                                        *)
(***************************************************************************)

\* What session.get and raise_for_status do: "ok" (a 2xx response with the
\* text), or the exception raised.
ReaderAnswer(kind, text) == [kind |-> kind, text |-> text]

\* Subclasses of requests.exceptions.RequestException, and any other Exception.
RequestExceptions == {"ConnectionError", "Timeout", "HTTPError"}
OtherExceptions == {"Exception"}

\* The two except clauses of extract_clean_content.
CaughtByReader(kind) == kind \in RequestExceptions \/ kind \in OtherExceptions

ContentThreshold == 100

\* The content test with >= for >.
IsSubstantialOffByOne(n) == n >= ContentThreshold

\* if len(clean_content) > 100
IsSubstantial(n) == n > ContentThreshold

\* The value returned: ok = FALSE stands for None.
Content(ok, text) == [ok |-> ok, text |-> text]

NoContent == Content(FALSE, << >>)

\* extract_clean_content(url): [raised, value] for the reader's answer.
extract_clean_content(url, reader) ==
    IF reader.kind = "ok"
    THEN [raised |-> FALSE,
          value |-> IF IsSubstantial(TextLen(reader.text))
                    THEN Content(TRUE, reader.text) ELSE NoContent]
    ELSE [raised |-> ~CaughtByReader(reader.kind), value |-> NoContent]

(***************************************************************************)
(* csv_15.py: extract_property_data_with_llm, extract_json_from_text       *)
(***************************************************************************)

\* What requests.post to the language-model server does:
\*   "ConnectionError", "Exception": the exception raised;
\*   "status": a response whose status is not 200;
\*   "json": status 200 and a response text that is a JSON object;
\*   "wrapped": status 200 and a JSON object with text around it;
\*   "garbage": status 200 and a text that holds no JSON object.
\* imoveis: the value of 'imoveis' in the JSON object.
LlmAnswer(kind, imoveis) == [kind |-> kind, imoveis |-> imoveis]

\* for prop in properties: self.clean_address_fields(prop)
CleanAll(properties) == [i \in 1..Len(properties) |-> clean_address_fields(properties[i])]

\* extract_json_from_text(text)
extract_json_from_text(llm) ==
    IF llm.kind = "wrapped" THEN CleanAll(llm.imoveis) ELSE << >>

\* extract_property_data_with_llm(clean_content, url)
extract_property_data_with_llm(clean_content, url, llm) ==
    IF llm.kind \in {"ConnectionError", "Exception", "status"} THEN << >>
    ELSE IF llm.kind = "json" THEN CleanAll(llm.imoveis)
    ELSE extract_json_from_text(llm)

\* Dicts the language model may put in 'imoveis'.
LlmApto ==
    [titulo |-> Title("Apartamento Centro 3 quartos", 28),
     preco |-> "R$ 850.000",
     endereco |-> <<"R", "u", "a", " ", "X", ",", " ", "C", "e", "n", "t", "r", "o", " ", "-", " ", "S", "P">>,
     bairro |-> NoneStr,
     cidade |-> NoneStr,
     area_m2 |-> <<85, 5>>,
     quartos |-> 3,
     banheiros |-> 2,
     vagas |-> 1,
     tipo |-> "apartamento",
     condominio |-> "R$ 900",
     caracteristicas |-> <<"piscina">>,
     link |-> None]

LlmCasa ==
    [titulo |-> Title("Casa Bela", 9),
     preco |-> "R$ 1.200.000",
     endereco |-> <<"A", "v", " ", "Y">>,
     bairro |-> <<"B", "e", "l", "a">>,
     cidade |-> <<"R", "i", "o">>,
     area_m2 |-> <<120, 0>>,
     quartos |-> 4,
     banheiros |-> NoneNum,
     vagas |-> NoneNum,
     tipo |-> "casa",
     condominio |-> None,
     caracteristicas |-> << >>,
     link |-> None,
     descricao |-> "Casa ampla"]

LlmPool == {LlmApto, LlmCasa}

\* An element of 'imoveis' that is a JSON string, not an object.
LlmNotDict == [json_string |-> "Apartamento 2 quartos R$ 500.000"]

\* isinstance(prop, dict)
IsDict(prop) == "json_string" \notin DOMAIN prop

AllDicts(properties) == \A i \in 1..Len(properties) : IsDict(properties[i])

(***************************************************************************)
(* csv_15.py: process_url                                                  *)
(***************************************************************************)

\* urlparse(url).netloc
Netloc(url) == IF url = "https://a.example/venda" THEN "a.example" ELSE "b.example"

\* The three assignments of step 3 on one dict.
WithMetadata(prop, url, stamp) ==
    Put(Put(Put(prop, "site_origem", Netloc(url)), "data_coleta", stamp), "url_origem", url)

AddMetadata(properties, url, stamp) ==
    [i \in 1..Len(properties) |-> WithMetadata(properties[i], url, stamp)]

\* The branch on use_llm with the flag ignored.
LlmBranchAlways(use_llm) == TRUE

\* if use_llm:
LlmBranch(use_llm) == use_llm

\* The fallback taken whatever the language model returned.
LlmFailedAlways(properties) == TRUE

\* if not properties:
LlmFailed(properties) == properties = << >>

\* Requests and calls a process_url call makes, in the order it makes them.
EvReader == "GET r.jina.ai"
EvLlm == "POST localhost:11434/api/generate"
EvSimple == "extract_properties_simple"

\* prop['site_origem'] = ... raises TypeError on an element that is no dict.
MetadataRaises(properties) == ~AllDicts(properties)

\* process_url(url, use_llm): [raised, result] with the content extracted
\* (content), what the language model returned (llm_properties) and the
\* requests and calls made (events).
Returned(raised, result, content, llm_properties, events) ==
    [raised |-> raised, result |-> result, content |-> content,
     llm_properties |-> llm_properties, events |-> events]

process_url(url, use_llm, reader, llm, stamp) ==
    LET got == extract_clean_content(url, reader)
        clean_content == got.value
        by_llm == extract_property_data_with_llm(clean_content.text, url, llm)
        by_regex == extract_properties_simple(clean_content.text, url)
    IN IF got.raised THEN Returned(TRUE, << >>, NoContent, << >>, <<EvReader>>)
       ELSE IF ~clean_content.ok THEN Returned(FALSE, << >>, NoContent, << >>, <<EvReader>>)
       ELSE IF LlmBranch(use_llm)
       THEN IF LlmFailed(by_llm)
            THEN Returned(FALSE, AddMetadata(by_regex, url, stamp), clean_content, by_llm,
                          <<EvReader, EvLlm, EvSimple>>)
            ELSE IF MetadataRaises(by_llm)
            THEN Returned(TRUE, << >>, clean_content, by_llm, <<EvReader, EvLlm>>)
            ELSE Returned(FALSE, AddMetadata(by_llm, url, stamp), clean_content, by_llm,
                          <<EvReader, EvLlm>>)
       ELSE Returned(FALSE, AddMetadata(by_regex, url, stamp), clean_content, << >>,
                     <<EvReader, EvSimple>>)

\* Largest number of sections of a page the reader answers with.
MaxPageSections == 2

\* Largest number of dicts in the language model's 'imoveis'.
MaxLlmRecords == 2

ReaderAnswers ==
    {ReaderAnswer("ok", text) : text \in BoundedSeq(SectionPool, MaxPageSections)}
    \cup {ReaderAnswer(kind, << >>) : kind \in RequestExceptions \cup OtherExceptions}

LlmAnswers ==
    {LlmAnswer(kind, imoveis) :
        kind \in {"json", "wrapped"}, imoveis \in BoundedSeq(LlmPool, MaxLlmRecords)}
    \cup {LlmAnswer(kind, << >>) : kind \in {"ConnectionError", "Exception", "status", "garbage"}}
    \cup {LlmAnswer("json", <<LlmNotDict>>), LlmAnswer("json", <<LlmApto, LlmNotDict>>)}

Stamps == {"2025-01-01 10:00:00", "2025-01-01 10:00:01"}

UrlOff ==
    /\ urlPc = "off"
    /\ urlArgs = << >>
    /\ urlEnv = << >>
    /\ urlRet = << >>

UrlInit ==
    /\ urlPc = "call"
    /\ urlArgs \in [url : Urls, use_llm : BOOLEAN]
    /\ urlEnv = << >>
    /\ urlRet = << >>

\* One call of process_url.
Call_process_url ==
    /\ urlPc = "call"
    /\ \E reader \in ReaderAnswers, llm \in LlmAnswers, stamp \in Stamps :
          /\ urlEnv' = [reader |-> reader, llm |-> llm, stamp |-> stamp]
          /\ urlRet' = process_url(urlArgs.url, urlArgs.use_llm, reader, llm, stamp)
    /\ urlPc' = "done"
    /\ UNCHANGED urlArgs
    /\ UNCHANGED nonUrlVars

UrlNext == Call_process_url

(***************************************************************************)
(* Claims about process_url and extract_clean_content                      *)
(***************************************************************************)

MetadataKeys == {"site_origem", "data_coleta", "url_origem"}

\* The dict without the three metadata fields.
WithoutMetadata(prop) == [k \in DOMAIN prop \ MetadataKeys |-> prop[k]]

\* `result` is `properties` with the three metadata fields added to each dict.
IsWithMetadata(result, properties) ==
    /\ Len(result) = Len(properties)
    /\ \A i \in 1..Len(result) :
          /\ MetadataKeys \subseteq DOMAIN result[i]
          /\ WithoutMetadata(result[i]) = properties[i]

\* C3: a process_url call with use_llm=False sends no request to the
\* language-model server, and returns the records extract_properties_simple
\* produces on the extracted content, with the metadata fields added (no
\* record when no content was extracted).
C3_RegexOnlyWithoutLlm ==
    (urlPc = "done" /\ ~urlArgs.use_llm) =>
       /\ EvLlm \notin Range(urlRet.events)
       /\ IF urlRet.content.ok
          THEN IsWithMetadata(urlRet.result,
                              extract_properties_simple(urlRet.content.text, urlArgs.url))
          ELSE urlRet.result = << >>

\* Witness of C3: a call with use_llm=False that returned records.
C3_Witness ==
    /\ urlPc = "done"
    /\ ~urlArgs.use_llm
    /\ urlRet.content.ok
    /\ Len(urlRet.result) >= 2

C5_ContentOrNone ==
    urlPc = "done" =>
       /\ ~extract_clean_content(urlArgs.url, urlEnv.reader).raised
       /\ IF urlEnv.reader.kind = "ok" /\ TextLen(urlEnv.reader.text) > 100
          THEN urlRet.content.ok /\ urlRet.content.text = urlEnv.reader.text
          ELSE ~urlRet.content.ok

\* Witness of C5: the request succeeded with a text of exactly 100 characters.
C5_Witness ==
    /\ urlPc = "done"
    /\ urlEnv.reader.kind = "ok"
    /\ TextLen(urlEnv.reader.text) = 100
    /\ ~urlRet.content.ok

(***************************************************************************)
(* csv_15.py: save_to_csv.  A row of the DataFrame is the dict it was      *)
(* built from: a column the dict lacks is a missing value of the row.      *)
(***************************************************************************)

\* A missing or None title.
NoTitle == Title("None", 0)

\* df.columns: every key of some dict.
Columns(properties) == UNION {DOMAIN properties[i] : i \in 1..Len(properties)}

\* subset=['titulo'] for subset=['titulo', 'preco'].
TituloKey(row) == <<IF "titulo" \in DOMAIN row THEN row.titulo ELSE NoTitle>>

\* subset=['titulo', 'preco']; missing values compare equal to one another.
TituloPrecoKey(row) ==
    <<IF "titulo" \in DOMAIN row THEN row.titulo ELSE NoTitle,
      IF "preco" \in DOMAIN row THEN row.preco ELSE None>>

\* df.drop_duplicates(subset=['titulo', 'preco'], keep='first')
DropDuplicatesTituloPreco(df) ==
    DropMasked(df, Duplicated([i \in 1..Len(df) |-> TituloPrecoKey(df[i])]), 1)

\* df[existing_priority + other_cols]: every column but 'descricao'.
WithoutDescricao(row) == [k \in DOMAIN row \ {"descricao"} |-> row[k]]

SaveResult(ret, written, rows) == [ret |-> ret, written |-> written, rows |-> rows]

CsvFilename == "resultados_jina/imoveis_jina.csv"

\* save_to_csv(properties): `diskOk` is whether makedirs and to_csv succeed.
save_to_csv(properties, diskOk) ==
    IF properties = << >> THEN SaveResult("", FALSE, << >>)
    ELSE IF ~({"titulo", "preco"} \subseteq Columns(properties))
    THEN SaveResult("", FALSE, << >>)
    ELSE IF ~diskOk THEN SaveResult("", FALSE, << >>)
    ELSE LET df == DropDuplicatesTituloPreco(properties) IN
         SaveResult(CsvFilename, TRUE, [i \in 1..Len(df) |-> WithoutDescricao(df[i])])

\* Longest list passed to save_to_csv.
MaxRecords == 3

\* The first apartment at another price, and a dict without 'preco'.
LlmAptoCaro == [LlmApto EXCEPT !.preco = "R$ 900.000"]
LlmSemPreco == [k \in DOMAIN LlmCasa \ {"preco"} |-> LlmCasa[k]]

\* Dicts process_url returns: from the regex extraction of two sections at
\* either URL, and from the language model.
CsvPool ==
    {WithMetadata(PropertyOf(sec, url), url, "2025-01-01 10:00:00") :
        sec \in {SecApto, Sec50}, url \in Urls}
    \cup {WithMetadata(clean_address_fields(prop), UrlA, "2025-01-01 10:00:01") :
             prop \in {LlmApto, LlmCasa, LlmAptoCaro, LlmSemPreco}}

CsvOff ==
    /\ csvPc = "off"
    /\ csvIn = << >>
    /\ csvOut = << >>

CsvInit ==
    /\ csvPc = "call"
    /\ csvIn \in BoundedSeq(CsvPool, MaxRecords)
    /\ csvOut = << >>

\* One call of save_to_csv.
Call_save_to_csv ==
    /\ csvPc = "call"
    /\ \E diskOk \in BOOLEAN : csvOut' = save_to_csv(csvIn, diskOk)
    /\ csvPc' = "done"
    /\ UNCHANGED csvIn
    /\ UNCHANGED nonCsvVars

CsvNext == Call_save_to_csv

(***************************************************************************)
(* Claims about save_to_csv                                                *)
(***************************************************************************)

\* Two dicts that both have 'titulo' and 'preco' have the same pair.
SamePair(r1, r2) == r1.titulo = r2.titulo /\ r1.preco = r2.preco

\* Position of the first dict of the list with the pair of row r.
FirstWithPair(properties, r) == Min({i \in 1..Len(properties) : SamePair(properties[i], r)})

\* The row holds the dict's values, column 'descricao' left out.
IsRowOf(row, prop) ==
    /\ DOMAIN row = DOMAIN prop \ {"descricao"}
    /\ \A k \in DOMAIN row : row[k] = prop[k]

\* C8: when save_to_csv writes the table for a non-empty list of dicts that
\* all have 'titulo' and 'preco', no two rows have the same (titulo, preco),
\* every pair of the list has exactly one row, that row is the first dict of
\* the list with the pair (without the column 'descricao', which is not
\* written), and the rows are in the order of these dicts in the list.
C8_CsvDeduplicated ==
    (/\ csvPc = "done"
     /\ csvOut.written
     /\ \A i \in 1..Len(csvIn) : {"titulo", "preco"} \subseteq DOMAIN csvIn[i])
    => LET rows == csvOut.rows IN
       /\ \A i, j \in 1..Len(rows) : i # j => ~SamePair(rows[i], rows[j])
       /\ \A i \in 1..Len(csvIn) :
             Cardinality({j \in 1..Len(rows) : SamePair(rows[j], csvIn[i])}) = 1
       /\ \A j \in 1..Len(rows) :
             /\ \E i \in 1..Len(csvIn) : SamePair(csvIn[i], rows[j])
             /\ IsRowOf(rows[j], csvIn[FirstWithPair(csvIn, rows[j])])
       /\ \A j, k \in 1..Len(rows) :
             j < k => FirstWithPair(csvIn, rows[j]) < FirstWithPair(csvIn, rows[k])

\* Witness of C8: three dicts, the first and the third with the same pair and
\* different other fields, written as two rows.
C8_Witness ==
    /\ csvPc = "done"
    /\ csvOut.written
    /\ Len(csvIn) = 3
    /\ \A i \in 1..3 : {"titulo", "preco"} \subseteq DOMAIN csvIn[i]
    /\ SamePair(csvIn[1], csvIn[3])
    /\ csvIn[1] # csvIn[3]
    /\ Len(csvOut.rows) = 2

(***************************************************************************)
(* csv_15.py: __init__, respect_rate_limit and the request of              *)
(* extract_clean_content, with the clock.  Times are whole milliseconds.   *)
(***************************************************************************)

RateWithKey == 200
RateWithoutKey == 20
MinuteMs == 60000

\* self.requests_per_minute = 200 if self.api_key else 20
RequestsPerMinute(key) == IF key # None /\ key # "" THEN RateWithKey ELSE RateWithoutKey

\* self.min_delay = 60 / self.requests_per_minute, in milliseconds
MinDelay(rpm) == MinuteMs \div rpm

\* Clock reading when the instance is constructed (time.time() counts from
\* 1970, so it is far larger than min_delay).
StartTime == 100000

\* Largest number of requests one instance sends.
MaxRequests == 21

\* Time that passes between two calls, before the request leaves (logging,
\* connection set-up) and until the response is back, as multiples of a third
\* of min_delay.
IdleTimes(delay) == {0, delay}
SendLatencies(delay) == {0, 2 * (delay \div 3)}
ResponseTimes(delay) == {delay \div 3}

RateOff ==
    /\ ratePc = "off"
    /\ api_key = None
    /\ requests_per_minute = 0
    /\ min_delay = 0
    /\ last_request_time = 0
    /\ now = 0
    /\ wakeAt = 0
    /\ requests = 0
    /\ lastSent = -1
    /\ gapsOk = TRUE
    /\ winStart = -1
    /\ winCount = 0

\* JinaAIRealEstateScraper(api_key)
RateInit ==
    /\ ratePc = "idle"
    /\ api_key \in {None, "jina_key"}
    /\ requests_per_minute = RequestsPerMinute(api_key)
    /\ min_delay = MinDelay(RequestsPerMinute(api_key))
    /\ last_request_time = 0
    /\ now = StartTime
    /\ wakeAt = 0
    /\ requests = 0
    /\ lastSent = -1
    /\ gapsOk = TRUE
    /\ winStart = -1
    /\ winCount = 0

\* extract_clean_content is called, `idle` after the previous call returned:
\* respect_rate_limit reads the clock and either goes to sleep or goes on.
RateBegin ==
    /\ ratePc = "idle"
    /\ requests < MaxRequests
    /\ \E idle \in IdleTimes(min_delay) :
          LET current_time == now + idle
              time_since_last == current_time - last_request_time
          IN
          /\ now' = current_time
          /\ IF time_since_last < min_delay
             THEN /\ wakeAt' = current_time + (min_delay - time_since_last)
                  /\ ratePc' = "sleep"
             ELSE /\ wakeAt' = wakeAt
                  /\ ratePc' = "stamp"
    /\ UNCHANGED <<api_key, requests_per_minute, min_delay, last_request_time,
                   requests, lastSent, gapsOk, winStart, winCount>>
    /\ UNCHANGED nonRateVars

\* time.sleep(sleep_time) returns.
RateWake ==
    /\ ratePc = "sleep"
    /\ now' = wakeAt
    /\ ratePc' = "stamp"
    /\ UNCHANGED <<api_key, requests_per_minute, min_delay, last_request_time, wakeAt,
                   requests, lastSent, gapsOk, winStart, winCount>>
    /\ UNCHANGED nonRateVars

\* respect_rate_limit without its last statement: the field keeps its value.
RateStampSkipped ==
    /\ ratePc = "stamp"
    /\ last_request_time' = last_request_time
    /\ ratePc' = "get"
    /\ UNCHANGED <<api_key, requests_per_minute, min_delay, now, wakeAt,
                   requests, lastSent, gapsOk, winStart, winCount>>
    /\ UNCHANGED nonRateVars

\* self.last_request_time = time.time()
RateStamp ==
    /\ ratePc = "stamp"
    /\ last_request_time' = now
    /\ ratePc' = "get"
    /\ UNCHANGED <<api_key, requests_per_minute, min_delay, now, wakeAt,
                   requests, lastSent, gapsOk, winStart, winCount>>
    /\ UNCHANGED nonRateVars

\* self.session.get(jina_url, timeout=30): after `latency` the request leaves.
RateSend ==
    /\ ratePc = "get"
    /\ \E latency \in SendLatencies(min_delay) :
          LET sent == now + latency IN
          /\ now' = sent
          /\ gapsOk' = (gapsOk /\ (lastSent = -1 \/ sent - lastSent >= min_delay))
          /\ lastSent' = sent
          /\ IF winStart = -1
             THEN winStart' = sent /\ winCount' = 1
             ELSE /\ winStart' = winStart
                  /\ winCount' = IF sent < winStart + MinuteMs THEN winCount + 1 ELSE winCount
    /\ requests' = requests + 1
    /\ ratePc' = "wait"
    /\ UNCHANGED <<api_key, requests_per_minute, min_delay, last_request_time, wakeAt>>
    /\ UNCHANGED nonRateVars

\* The response (or the exception) arrives and extract_clean_content returns;
\* the value returned is that of the operator extract_clean_content.
RateReturn ==
    /\ ratePc = "wait"
    /\ \E elapsed \in ResponseTimes(min_delay) : now' = now + elapsed
    /\ ratePc' = "idle"
    /\ UNCHANGED <<api_key, requests_per_minute, min_delay, last_request_time, wakeAt,
                   requests, lastSent, gapsOk, winStart, winCount>>
    /\ UNCHANGED nonRateVars

RateNext ==
    \/ RateBegin
    \/ RateWake
    \/ RateStamp
    \/ RateSend
    \/ RateReturn

(***************************************************************************)
(* Claims about the rate limit                                             *)
(***************************************************************************)

\* C6: at most requests_per_minute requests (20 without an API key, 200 with
\* one) are sent in a 60-second window (here: the one that starts when the
\* first request is sent), and every request is sent at least
\* min_delay = 60 / requests_per_minute seconds after the previous one.
C6_RateLimitRespected ==
    ratePc # "off" =>
       /\ requests_per_minute = (IF api_key \in {None, ""} THEN 20 ELSE 200)
       /\ winCount <= requests_per_minute
       /\ gapsOk

\* The first half of C6 alone: the count of requests in the 60-second window.
RateWindowRespected == winCount <= requests_per_minute

(***************************************************************************)
(* Claims about the fields of the instance                                 *)
(***************************************************************************)

\* The fields of a JinaAIRealEstateScraper the model holds.
InstanceFields == <<api_key, requests_per_minute, min_delay, last_request_time>>

MaxUrls == 2

\* What the reader answers for a URL of the list: a page with listings, a
\* page that is too short, or no answer.
MultiReaders ==
    {ReaderAnswer("ok", <<SecApto, SecLong>>),
     ReaderAnswer("ok", <<Sec49>>),
     ReaderAnswer("ConnectionError", << >>)}

\* What the language-model server answers: one record, an error status, or
\* an 'imoveis' list that holds a string.
MultiLlms ==
    {LlmAnswer("json", <<LlmApto>>),
     LlmAnswer("status", << >>),
     LlmAnswer("json", <<LlmNotDict>>)}

\* One process_url call of the loop, as logged.
MultiCall(url, ret) == [url |-> url, ret |-> ret]

\* all_properties.extend(properties)
Extend(list, properties) == list \o properties

MultiOff ==
    /\ multiPc = "off"
    /\ multiArgs = << >>
    /\ multiI = 0
    /\ all_properties = << >>
    /\ multiLog = << >>

\* process_multiple_urls(urls, use_llm): all_properties = []
MultiInit ==
    /\ multiPc = "loop"
    /\ multiArgs \in [urls : BoundedSeq(Urls, MaxUrls), use_llm : BOOLEAN]
    /\ multiI = 0
    /\ all_properties = << >>
    /\ multiLog = << >>

\* One turn of the loop: process_url(url, use_llm) and extend; an exception
\* raised by process_url leaves process_multiple_urls.
MultiProcess ==
    /\ multiPc = "loop"
    /\ multiI < Len(multiArgs.urls)
    /\ \E reader \in MultiReaders, llm \in MultiLlms, stamp \in Stamps :
          LET i == multiI + 1
              url == multiArgs.urls[i]
              ret == process_url(url, multiArgs.use_llm, reader, llm, stamp)
          IN
          /\ multiLog' = Append(multiLog, MultiCall(url, ret))
          /\ multiI' = i
          /\ IF ret.raised
             THEN /\ multiPc' = "raised"
                  /\ UNCHANGED all_properties
             ELSE /\ all_properties' = Extend(all_properties, ret.result)
                  /\ multiPc' = IF i < Len(multiArgs.urls) THEN "sleep" ELSE "loop"
    /\ UNCHANGED multiArgs
    /\ UNCHANGED nonMultiVars

\* time.sleep(random.uniform(1, 3)) returns.
MultiSleep ==
    /\ multiPc = "sleep"
    /\ multiPc' = "loop"
    /\ UNCHANGED <<multiArgs, multiI, all_properties, multiLog>>
    /\ UNCHANGED nonMultiVars

\* return all_properties
MultiReturn ==
    /\ multiPc = "loop"
    /\ multiI = Len(multiArgs.urls)
    /\ multiPc' = "done"
    /\ UNCHANGED <<multiArgs, multiI, all_properties, multiLog>>
    /\ UNCHANGED nonMultiVars

MultiNext ==
    \/ MultiProcess
    \/ MultiSleep
    \/ MultiReturn

(***************************************************************************)
(* Claims about process_multiple_urls                                      *)
(***************************************************************************)

\* The lists the logged calls returned, one after the other.
RECURSIVE ConcatResults(_)
ConcatResults(log) ==
    IF log = << >> THEN << >>
    ELSE ConcatResults(SubSeq(log, 1, Len(log) - 1)) \o log[Len(log)].ret.result

\* The call is over: it returned or it was left by an exception.
MultiEnded == multiPc \in {"done", "raised"}

\* C12: when process_multiple_urls ends, every URL of the list has been
\* processed exactly once, in the order of the list; the value returned is
\* the concatenation in that order of the lists process_url returned; a URL
\* whose extraction failed contributed no record.
C12_AllUrlsProcessed ==
    MultiEnded =>
       /\ multiPc = "done"
       /\ [k \in 1..Len(multiLog) |-> multiLog[k].url] = multiArgs.urls
       /\ all_properties = ConcatResults(multiLog)
       /\ \A k \in 1..Len(multiLog) :
             ~multiLog[k].ret.content.ok => multiLog[k].ret.result = << >>

\* The part of C12 that holds: a call that returns has processed every URL
\* once and in order, and returns the concatenation of the lists.
MultiConcatWhenReturned ==
    multiPc = "done" =>
       /\ [k \in 1..Len(multiLog) |-> multiLog[k].url] = multiArgs.urls
       /\ all_properties = ConcatResults(multiLog)
       /\ \A k \in 1..Len(multiLog) :
             ~multiLog[k].ret.content.ok => multiLog[k].ret.result = << >>

\* A URL whose content could not be extracted is followed by a URL that
\* yields records, and the call returns them.
MultiFailedThenRecords ==
    /\ multiPc = "done"
    /\ Len(multiLog) = 2
    /\ ~multiLog[1].ret.content.ok
    /\ multiLog[2].ret.result # << >>
    /\ all_properties = multiLog[2].ret.result

(***************************************************************************)
(* csv_15.py: calls of extract_address_from_section                        *)
(***************************************************************************)

\* Longest text that follows the street name in a match of address_pattern.
MaxTailLen == 5

\* A match starts with a street word, blanks and a name.
StreetPrefix == <<"R", "u", "a", " ", "X">>

\* Characters that follow: separators, a digit (house number) and a letter.
MatchAlphabet == {",", " ", "-", "1", "B"}

\* The four optional groups of address_pattern, each on a piece of text:
\*   (?:,\s*\d+)?   (?:,\s*[^-]+)?   (?:-\s*[^,]+)?   (?:,\s*[^-]+)?
NoChar(t, ch) == \A i \in 1..Len(t) : t[i] # ch

NumberGroup(t) ==
    \/ t = << >>
    \/ /\ Len(t) >= 2
       /\ t[1] = ","
       /\ t[Len(t)] = "1"
       /\ \E k \in 2..Len(t) :
             /\ \A j \in 2..(k - 1) : t[j] = " "
             /\ \A j \in k..Len(t) : t[j] = "1"

CommaGroup(t) == t = << >> \/ (Len(t) >= 2 /\ t[1] = "," /\ NoChar(Tail(t), "-"))

HyphenGroup(t) == t = << >> \/ (Len(t) >= 2 /\ t[1] = "-" /\ NoChar(Tail(t), ","))

\* The text after the street word is [^,]+ followed by the four groups.
MatchesPattern(tail) ==
    \E a \in 0..Len(tail) :
       /\ NoChar(SubSeq(tail, 1, a), ",")
       /\ \E b \in a..Len(tail) :
             /\ NumberGroup(SubSeq(tail, a + 1, b))
             /\ \E c \in b..Len(tail) :
                   /\ CommaGroup(SubSeq(tail, b + 1, c))
                   /\ \E d \in c..Len(tail) :
                         /\ HyphenGroup(SubSeq(tail, c + 1, d))
                         /\ CommaGroup(SubSeq(tail, d + 1, Len(tail)))

AddressMatches ==
    {StreetPrefix \o tail :
        tail \in {t \in BoundedSeq(MatchAlphabet, MaxTailLen) : MatchesPattern(t)}}

\* A second match in the same section.
OtherMatch == <<"A", "v", " ", "Z", ",", " ", "C">>

\* What re.findall returns: no match, one match, or two.
MatchLists ==
    {<< >>} \cup {<<m>> : m \in AddressMatches} \cup {<<m, OtherMatch>> : m \in AddressMatches}

SectOff ==
    /\ sectPc = "off"
    /\ sectIn = << >>
    /\ sectOut = << >>

SectInit ==
    /\ sectPc = "call"
    /\ sectIn \in MatchLists
    /\ sectOut = << >>

\* One call of extract_address_from_section.
Call_extract_address_from_section ==
    /\ sectPc = "call"
    /\ sectOut' = extract_address_from_section(sectIn)
    /\ sectPc' = "done"
    /\ UNCHANGED sectIn
    /\ UNCHANGED nonSectVars

SectNext == Call_extract_address_from_section

(***************************************************************************)
(* Claims about extract_address_from_section                               *)
(***************************************************************************)

\* Position of the first and of the last ch in s (0: none).
FirstIndex(s, ch) ==
    IF HasChar(s, ch) THEN CHOOSE i \in 1..Len(s) : s[i] = ch /\ \A j \in 1..(i - 1) : s[j] # ch
    ELSE 0

LastIndex(s, ch) ==
    IF HasChar(s, ch)
    THEN CHOOSE i \in 1..Len(s) : s[i] = ch /\ \A j \in (i + 1)..Len(s) : s[j] # ch
    ELSE 0

TextBefore(s, i) == SubSeq(s, 1, i - 1)
TextAfter(s, i) == SubSeq(s, i + 1, Len(s))

\* The blank at position i is next to a comma or to an end of s, with only
\* blanks in between.
BlankAtComma(s, i) ==
    /\ s[i] = " "
    /\ \/ \A j \in 1..i : s[j] = " "
       \/ \A j \in i..Len(s) : s[j] = " "
       \/ \E k \in 1..(i - 1) : s[k] = "," /\ \A j \in (k + 1)..i : s[j] = " "
       \/ \E k \in (i + 1)..Len(s) : s[k] = "," /\ \A j \in i..(k - 1) : s[j] = " "

\* s without the blanks that are next to a comma or to an end.
RECURSIVE WithoutBlanksFrom(_, _)
WithoutBlanksFrom(s, i) ==
    IF i > Len(s) THEN << >>
    ELSE IF BlankAtComma(s, i) THEN WithoutBlanksFrom(s, i + 1)
    ELSE <<s[i]>> \o WithoutBlanksFrom(s, i + 1)

WithoutBlanksAtCommas(s) == WithoutBlanksFrom(s, 1)

\* 'bairro' and 'cidade' as the text after the last comma gives them.
BairroCidadeFrom(info, last) ==
    IF HasChar(last, "-")
    THEN /\ info.cidade = Strip(TextAfter(last, LastIndex(last, "-")))
         /\ info.bairro = Strip(TextBefore(last, FirstIndex(last, "-")))
    ELSE /\ info.bairro = last
         /\ info.cidade = NoneStr

\* C13 (as stated): None when there is no match; with a comma in the match,
\* 'endereco' is everything before the last comma and 'bairro' the text after
\* it, cut into 'bairro' (before the first hyphen) and 'cidade' (after the
\* last hyphen) when it has a hyphen; without a comma 'endereco' is the whole
\* match and 'bairro' and 'cidade' are None.  Blanks at the ends of a field
\* are disregarded.
C13_AddressParts ==
    sectPc = "done" =>
       IF sectIn = << >> THEN ~sectOut.found
       ELSE LET full == Strip(sectIn[1])
                c == LastIndex(full, ",")
            IN /\ sectOut.found
               /\ IF c > 0
                  THEN /\ sectOut.endereco = Strip(TextBefore(full, c))
                       /\ BairroCidadeFrom(sectOut, Strip(TextAfter(full, c)))
                  ELSE /\ sectOut.endereco = full
                       /\ sectOut.bairro = NoneStr
                       /\ sectOut.cidade = NoneStr

\* What the code does instead: as above, but 'endereco' is the text before
\* the last comma with the blanks around each of its commas removed.
AddressPartsNormalised ==
    sectPc = "done" =>
       IF sectIn = << >> THEN ~sectOut.found
       ELSE LET full == Strip(sectIn[1])
                c == LastIndex(full, ",")
            IN /\ sectOut.found
               /\ IF c > 0
                  THEN /\ sectOut.endereco = WithoutBlanksAtCommas(TextBefore(full, c))
                       /\ BairroCidadeFrom(sectOut, Strip(TextAfter(full, c)))
                  ELSE /\ sectOut.endereco = full
                       /\ sectOut.bairro = NoneStr
                       /\ sectOut.cidade = NoneStr

\* A match with a house number and a neighbourhood, with a blank after the
\* first comma: the blank is lost.
AddressBlankLost ==
    /\ sectPc = "done"
    /\ sectIn = << StreetPrefix \o <<",", " ", "1", ",", "B">> >>
    /\ sectOut.endereco = <<"R", "u", "a", " ", "X", ",", "1">>
    /\ sectOut.bairro = <<"B">>
    /\ sectOut.cidade = NoneStr

(***************************************************************************)
(* test_scraper.py: clean_html, parse_scraper_output, save_to_csv,         *)
(* run_scraper                                                             *)
(***************************************************************************)

\* What the browser does in clean_html: "html" (page.content() returns the
\* page) or the exception raised by launch, goto or evaluate.
BrowserAnswers == {"html", "TimeoutError", "Error"}

\* clean_html(url): the cleaned page, or None after any exception.
CleanedHtml == "<html>...</html>"

clean_html(url, browser) == IF browser = "html" THEN CleanedHtml ELSE None

\* A value json.loads returns or the graph hands back:
\*   type "dict" with or without the key 'imoveis'; type "list".
\* imoveis: the list of dicts under 'imoveis'; tabular = FALSE: the value
\* under 'imoveis' is one pd.DataFrame(...) does not accept (a string).
JsonValue(type, has_imoveis, tabular, imoveis) ==
    [type |-> type, has_imoveis |-> has_imoveis, tabular |-> tabular, imoveis |-> imoveis]

\* What scraper.run() does:
\*   "GraphError":    it raises;
\*   "dict":          it returns a dict (value);
\*   "json":          it returns a str that is a JSON text (value);
\*   "wrapped":       a str that is no JSON text, but the text from its first
\*                    '{' to its last '}' is one (value);
\*   "broken":        a str with '{' before '}' and no JSON text in between;
\*   "prose":         a str without braces and without the word imoveis;
\*   "prose_imoveis": a str without braces that has the word imoveis;
\*   "none":          it returns None.
GraphAnswer(kind, value) == [kind |-> kind, value |-> value]

NoValue == JsonValue("none", FALSE, FALSE, << >>)

\* [raised, value]: what a call raised or returned.
Outcome(raised, value) == [raised |-> raised, value |-> value]

\* parse_scraper_output(output): every exception is logged and raised again.
parse_scraper_output(output) ==
    IF output.kind \in {"dict", "json", "wrapped"} THEN Outcome(FALSE, output.value)
    ELSE Outcome(TRUE, NoValue)

\* not parsed_data or 'imoveis' not in parsed_data
NoValidData(parsed_data) ==
    \/ parsed_data.type = "dict" /\ ~parsed_data.has_imoveis
    \/ parsed_data.type = "list"

\* The test on cleaned_html left out.
NotCleanedNever(cleaned_html) == FALSE

\* if not cleaned_html
NotCleaned(cleaned_html) == cleaned_html = None \/ cleaned_html = ""

\* A table: its columns and its rows.
Table(columns, rows) == [columns |-> columns, rows |-> rows]

\* pd.DataFrame()
EmptyTable == Table({}, << >>)

\* df = pd.DataFrame(parsed_data['imoveis']) with the two columns added.
RowOf(imovel, url, stamp) == Put(Put(imovel, "site_origem", url), "data_coleta", stamp)

DataFrameOf(imoveis, url, stamp) ==
    Table(UNION {DOMAIN imoveis[i] : i \in 1..Len(imoveis)} \cup {"site_origem", "data_coleta"},
          [i \in 1..Len(imoveis) |-> RowOf(imoveis[i], url, stamp)])

\* save_to_csv(df, url): the file name, or None after any exception.
RunCsvName == "resultados_scraping/a_20250101_100000.csv"

run_save_to_csv(df, url, disk) == IF disk THEN RunCsvName ELSE None

\* Calls run_scraper makes, in the order it makes them.
EvClean == "clean_html"
EvGraph == "SmartScraperGraph.run"
EvParse == "parse_scraper_output"
EvSave == "save_to_csv"

\* What a call of run_scraper did: raised (an exception left the call), the
\* table returned, whether a CSV file was written, the calls made.
RunReturned(raised, table, written, events) ==
    [raised |-> raised, table |-> table, written |-> written, events |-> events]

\* Classes of the exceptions raised inside the try block of run_scraper, all
\* of them subclasses of Exception.
RunExceptions == {"ValueError", "JSONDecodeError", "AttributeError", "GraphError"}

\* except Exception as e
CaughtByRunScraper(exc) == exc \in RunExceptions

\* An exception of class exc inside the try block: the except clause logs it
\* and returns pd.DataFrame().
RunCaught(exc, events) ==
    IF CaughtByRunScraper(exc) THEN RunReturned(FALSE, EmptyTable, FALSE, events)
    ELSE RunReturned(TRUE, EmptyTable, FALSE, events)

\* The exception parse_scraper_output raises again for an output it cannot
\* parse.
ParseException(output) ==
    IF output.kind = "broken" THEN "JSONDecodeError"
    ELSE IF output.kind = "none" THEN "AttributeError"
    ELSE "ValueError"

run_scraper(url, browser, graph, disk, stamp) ==
    LET cleaned_html == clean_html(url, browser)
        parsed == parse_scraper_output(graph)
        parsed_data == parsed.value
        df == DataFrameOf(parsed_data.imoveis, url, stamp)
        csv_path == run_save_to_csv(df, url, disk)
    IN IF NotCleaned(cleaned_html) THEN RunCaught("ValueError", <<EvClean>>)
       ELSE IF graph.kind = "GraphError" THEN RunCaught("GraphError", <<EvClean, EvGraph>>)
       ELSE IF parsed.raised
       THEN RunCaught(ParseException(graph), <<EvClean, EvGraph, EvParse>>)
       ELSE IF NoValidData(parsed_data)
       THEN RunCaught("ValueError", <<EvClean, EvGraph, EvParse>>)
       ELSE IF ~parsed_data.tabular
       THEN RunCaught("ValueError", <<EvClean, EvGraph, EvParse>>)
       ELSE RunReturned(FALSE, df, csv_path # None, <<EvClean, EvGraph, EvParse, EvSave>>)

\* Largest number of dicts under 'imoveis'.
MaxImoveis == 2

ImovelA == [titulo |-> "Apartamento Centro", preco |-> "R$ 850.000"]
ImovelB == [titulo |-> "Casa Bela", preco |-> "R$ 1.200.000", bairro |-> "Bela"]

JsonValues ==
    {JsonValue("dict", TRUE, TRUE, imoveis) :
        imoveis \in BoundedSeq({ImovelA, ImovelB}, MaxImoveis)}
    \cup {JsonValue("dict", TRUE, FALSE, << >>),
          JsonValue("dict", FALSE, FALSE, << >>),
          JsonValue("list", FALSE, FALSE, << >>)}

GraphAnswers ==
    {GraphAnswer("dict", v) : v \in {w \in JsonValues : w.type = "dict"}}
    \cup {GraphAnswer(kind, v) : kind \in {"json", "wrapped"}, v \in JsonValues}
    \cup {GraphAnswer(kind, NoValue) :
             kind \in {"GraphError", "broken", "prose", "prose_imoveis", "none"}}

RunOff ==
    /\ runPc = "off"
    /\ runArgs = << >>
    /\ runEnv = << >>
    /\ runRet = << >>

RunInit ==
    /\ runPc = "call"
    /\ runArgs \in Urls
    /\ runEnv = << >>
    /\ runRet = << >>

\* One call of run_scraper.
Call_run_scraper ==
    /\ runPc = "call"
    /\ \E browser \in BrowserAnswers, graph \in GraphAnswers, disk \in BOOLEAN, stamp \in Stamps :
          /\ runEnv' = [browser |-> browser, graph |-> graph, disk |-> disk, stamp |-> stamp]
          /\ runRet' = run_scraper(runArgs, browser, graph, disk, stamp)
    /\ runPc' = "done"
    /\ UNCHANGED runArgs
    /\ UNCHANGED nonRunVars

RunNext == Call_run_scraper

(***************************************************************************)
(* Claims about run_scraper                                                *)
(***************************************************************************)

\* The three failures the claim names, read off what the browser and the
\* graph did.
CleaningFailed == runEnv.browser # "html"

OutputUnparsable == runEnv.graph.kind \in {"broken", "prose", "prose_imoveis", "none"}

NoImoveisKey ==
    /\ runEnv.graph.kind \in {"dict", "json", "wrapped"}
    /\ runEnv.graph.value.type = "dict"
    /\ ~runEnv.graph.value.has_imoveis

\* C14: run_scraper lets no exception out; when cleaning the page fails, when
\* parse_scraper_output cannot parse the output, or when the parsed output
\* has no key 'imoveis', it returns an empty table and writes no CSV file;
\* when cleaning the page fails the scraping graph is not run.
C14_RunScraperContained ==
    runPc = "done" =>
       /\ ~runRet.raised
       /\ (CleaningFailed \/ OutputUnparsable \/ NoImoveisKey) =>
             /\ runRet.table = EmptyTable
             /\ ~runRet.written
             /\ EvSave \notin Range(runRet.events)
       /\ CleaningFailed => EvGraph \notin Range(runRet.events)

\* Witness of C14: the page could not be cleaned although the graph would
\* have returned records.
C14_Witness ==
    /\ runPc = "done"
    /\ CleaningFailed
    /\ runEnv.graph.kind = "dict"
    /\ runEnv.graph.value.has_imoveis
    /\ runEnv.graph.value.imoveis = <<ImovelA, ImovelB>>
    /\ runRet.table = EmptyTable

(***************************************************************************)
(* capturar_xhr.py: capturar_xhr.  The script uses Playwright's            *)
(* synchronous API: 'response' events are dispatched, and the body of a    *)
(* response is delivered to response.json(), only while the script is      *)
(* inside a Playwright call (page.goto, browser.close); while it is        *)
(* blocked in input() the events of the responses that arrive wait.        *)
(***************************************************************************)

\* Largest number of responses the page receives.
MaxResponses == 3

ResourceTypes == {"xhr", "fetch"}
ResponseUrls == {"/api/list", "/api/detail"}

\* body: "json" (the body parses as JSON) or "text" (it does not).
Response(url, resource_type, body) ==
    [url |-> url, resource_type |-> resource_type, body |-> body]

Responses ==
    {Response(url, type, body) : url \in ResponseUrls, type \in ResourceTypes,
                                 body \in {"json", "text"}}

\* The value response.json() returns for a JSON body.
JsonBody(r) == <<"json of", r.url>>

\* {"url": response.url, "json": body}
XhrEntry(r) == [url |-> r.url, json |-> JsonBody(r)]

XhrOff ==
    /\ xhrPc = "off"
    /\ arrived = << >>
    /\ queued = << >>
    /\ fired = << >>
    /\ pending = {}
    /\ xhrs = << >>

\* xhrs = []; the browser is launched and page.on("response", ...) is done.
XhrInit ==
    /\ xhrPc = "registered"
    /\ arrived = << >>
    /\ queued = << >>
    /\ fired = << >>
    /\ pending = {}
    /\ xhrs = << >>

\* page.goto(url) is called.
XhrGoto ==
    /\ xhrPc = "registered"
    /\ xhrPc' = "goto"
    /\ UNCHANGED <<arrived, queued, fired, pending, xhrs>>
    /\ UNCHANGED nonXhrVars

\* The page receives a response (while it loads, or while the user interacts
\* with it); its 'response' event is queued.
XhrArrive ==
    /\ xhrPc \in {"goto", "input"}
    /\ Len(arrived) < MaxResponses
    /\ \E r \in Responses :
          /\ arrived' = Append(arrived, r)
          /\ queued' = Append(queued, Len(arrived) + 1)
    /\ UNCHANGED <<xhrPc, fired, pending, xhrs>>
    /\ UNCHANGED nonXhrVars

\* Inside a Playwright call: the next event is dispatched and
\* intercept_response(response) runs up to response.json().
XhrFire ==
    /\ xhrPc \in {"goto", "closing"}
    /\ queued # << >>
    /\ LET n == Head(queued) IN
          /\ fired' = Append(fired, n)
          /\ pending' = IF arrived[n].resource_type = "xhr" THEN pending \cup {n} ELSE pending
    /\ queued' = Tail(queued)
    /\ UNCHANGED <<xhrPc, arrived, xhrs>>
    /\ UNCHANGED nonXhrVars

\* Inside a Playwright call: the body of a response arrives; response.json()
\* returns and the entry is appended, or it raises and the bare except
\* swallows the exception.
XhrBody ==
    /\ xhrPc \in {"goto", "closing"}
    /\ \E n \in pending :
          /\ xhrs' = IF arrived[n].body = "json" THEN Append(xhrs, XhrEntry(arrived[n])) ELSE xhrs
          /\ pending' = pending \ {n}
    /\ UNCHANGED <<xhrPc, arrived, queued, fired>>
    /\ UNCHANGED nonXhrVars

\* During browser.close(): the body of a response can no longer be fetched;
\* response.json() raises and the bare except swallows the exception.
XhrBodyLost ==
    /\ xhrPc = "closing"
    /\ \E n \in pending : pending' = pending \ {n}
    /\ UNCHANGED <<xhrPc, arrived, queued, fired, xhrs>>
    /\ UNCHANGED nonXhrVars

\* page.goto returns; the script prints and blocks in input().
XhrGotoReturns ==
    /\ xhrPc = "goto"
    /\ xhrPc' = "input"
    /\ UNCHANGED <<arrived, queued, fired, pending, xhrs>>
    /\ UNCHANGED nonXhrVars

\* The user presses ENTER; browser.close() is called.
XhrEnter ==
    /\ xhrPc = "input"
    /\ xhrPc' = "closing"
    /\ UNCHANGED <<arrived, queued, fired, pending, xhrs>>
    /\ UNCHANGED nonXhrVars

\* browser.close() returns, the with block ends: return xhrs.
XhrReturn ==
    /\ xhrPc = "closing"
    /\ queued = << >>
    /\ pending = {}
    /\ xhrPc' = "done"
    /\ UNCHANGED <<arrived, queued, fired, pending, xhrs>>
    /\ UNCHANGED nonXhrVars

XhrNext ==
    \/ XhrGoto
    \/ XhrArrive
    \/ XhrFire
    \/ XhrBody
    \/ XhrBodyLost
    \/ XhrGotoReturns
    \/ XhrEnter
    \/ XhrReturn

(***************************************************************************)
(* Claims about capturar_xhr                                               *)
(***************************************************************************)

\* The responses of resource type 'xhr' whose body parses as JSON.
IsJsonXhr(r) == r.resource_type = "xhr" /\ r.body = "json"

\* The entries of the responses numbered in `order` that are JSON xhr
\* responses, in that order.
RECURSIVE EntriesOf(_, _)
EntriesOf(order, resps) ==
    IF order = << >> THEN << >>
    ELSE IF IsJsonXhr(resps[Head(order)])
    THEN <<XhrEntry(resps[Head(order)])>> \o EntriesOf(Tail(order), resps)
    ELSE EntriesOf(Tail(order), resps)

\* C15: capturar_xhr returns, in the order the callbacks fired, one entry for
\* every response that arrived between page.on and browser.close, had
\* resource type 'xhr' and a body that parses as JSON, and no other entry.
C15_XhrCaptured ==
    xhrPc = "done" =>
       /\ Len(fired) = Len(arrived)
       /\ xhrs = EntriesOf(fired, arrived)

\* The part of C15 that holds: every response gets its callback, every entry
\* returned belongs to a JSON xhr response, no response has two entries, and
\* a response that is skipped does not stop later ones from being captured.
XhrEntriesAreJsonXhr ==
    xhrPc = "done" =>
       /\ fired = [n \in 1..Len(arrived) |-> n]
       /\ \E pick \in SUBSET (1..Len(arrived)) :
             /\ \A n \in pick : IsJsonXhr(arrived[n])
             /\ Cardinality(pick) = Len(xhrs)
             /\ \E order \in [1..Len(xhrs) -> pick] :
                   /\ \A i, j \in 1..Len(xhrs) : i # j => order[i] # order[j]
                   /\ \A i \in 1..Len(xhrs) : xhrs[i] = XhrEntry(arrived[order[i]])

\* A response with an unparsable body is followed by a JSON xhr response,
\* and the later one is captured.
XhrSkippedThenCaptured ==
    /\ xhrPc = "done"
    /\ Len(arrived) = 2
    /\ arrived[1].resource_type = "xhr" /\ arrived[1].body = "text"
    /\ IsJsonXhr(arrived[2])
    /\ xhrs = <<XhrEntry(arrived[2])>>

(***************************************************************************)
(* Specifications                                                          *)
(***************************************************************************)

\* script_principal.py and the scripts of project_I.
Init == OrchInit /\ AddrOff /\ SimpleOff /\ UrlOff /\ CsvOff /\ RateOff /\ MultiOff /\ SectOff /\ RunOff /\ XhrOff

Spec == Init /\ [][OrchNext]_vars

\* Calls of clean_address_fields.
AddrSpecInit == OrchOff /\ AddrInit /\ SimpleOff /\ UrlOff /\ CsvOff /\ RateOff /\ MultiOff /\ SectOff /\ RunOff /\ XhrOff

AddrSpec == AddrSpecInit /\ [][AddrNext]_vars

\* Calls of extract_properties_simple.
SimpleSpecInit == OrchOff /\ AddrOff /\ SimpleInit /\ UrlOff /\ CsvOff /\ RateOff /\ MultiOff /\ SectOff /\ RunOff /\ XhrOff

SimpleSpec == SimpleSpecInit /\ [][SimpleNext]_vars

\* Calls of process_url.
UrlSpecInit == OrchOff /\ AddrOff /\ SimpleOff /\ UrlInit /\ CsvOff /\ RateOff /\ MultiOff /\ SectOff /\ RunOff /\ XhrOff

UrlSpec == UrlSpecInit /\ [][UrlNext]_vars

\* Calls of save_to_csv.
CsvSpecInit == OrchOff /\ AddrOff /\ SimpleOff /\ UrlOff /\ CsvInit /\ RateOff /\ MultiOff /\ SectOff /\ RunOff /\ XhrOff

CsvSpec == CsvSpecInit /\ [][CsvNext]_vars

\* Calls of extract_clean_content on one instance, with the clock.
RateSpecInit == OrchOff /\ AddrOff /\ SimpleOff /\ UrlOff /\ CsvOff /\ RateInit /\ MultiOff /\ SectOff /\ RunOff /\ XhrOff

RateSpec == RateSpecInit /\ [][RateNext]_vars

\* Calls of process_multiple_urls.
MultiSpecInit == OrchOff /\ AddrOff /\ SimpleOff /\ UrlOff /\ CsvOff /\ RateOff /\ MultiInit /\ SectOff /\ RunOff /\ XhrOff

MultiSpec == MultiSpecInit /\ [][MultiNext]_vars

\* Calls of extract_address_from_section.
SectSpecInit == OrchOff /\ AddrOff /\ SimpleOff /\ UrlOff /\ CsvOff /\ RateOff /\ MultiOff /\ SectInit /\ RunOff /\ XhrOff

SectSpec == SectSpecInit /\ [][SectNext]_vars

\* Calls of run_scraper.
RunSpecInit == OrchOff /\ AddrOff /\ SimpleOff /\ UrlOff /\ CsvOff /\ RateOff /\ MultiOff /\ SectOff /\ RunInit /\ XhrOff

RunSpec == RunSpecInit /\ [][RunNext]_vars

\* Calls of capturar_xhr.
XhrSpecInit == OrchOff /\ AddrOff /\ SimpleOff /\ UrlOff /\ CsvOff /\ RateOff /\ MultiOff /\ SectOff /\ RunOff /\ XhrInit

XhrSpec == XhrSpecInit /\ [][XhrNext]_vars

====
